---- MODULE Spec2Model ----
(***************************************************************************)
(* State-machine model of the CloudFormation schema version ledger kept by *)
(* fetch_schemas.main: one synchronisation pass loads the ledger files,    *)
(* walks the paginated type listing, fetches and stores each AWS type's    *)
(* schema, bumps the version records, archives the types that are no       *)
(* longer listed and writes both ledger files back.  A second              *)
(* specification models SchemaTracker.run_update, which keeps the schemas  *)
(* in a git repository and derives the history from its commits, with the  *)
(* working directory of the process that os.chdir moves, and a third the   *)
(* mapping between type names and file names.                              *)
(***************************************************************************)
EXTENDS Integers, Sequences, FiniteSets, TLC

\* ------------------------------------------------------------------ bounds

\* Number of passes that are started (each start draws a later current_time).
MaxPasses == 4
\* Number of TypeSummaries on one page of the list_types paginator.
PageSize == 2
\* Longest type name given to the id mapping.
MaxIdLen == 4
\* Most bytes a failed write of save_schemas leaves in the file.
MaxCut == 1
\* Deepest nesting of repository directories init_repo makes.
MaxDepth == 3

\* ------------------------------------------------------------- type names

\* Type names are strings, modelled as sequences of characters.
TypeA == <<"A", "W", "S", ":", ":", "A">>
TypeB == <<"A", "W", "S", ":", ":", "B">>
TypeX == <<"X", ":", ":", "C">>

\* Every type the remote registry may ever list, in the order it lists them.
Registry == <<TypeA, TypeX, TypeB>>

TypeNames == {Registry[i] : i \in 1..Len(Registry)}

\* str.startswith
StartsWith(s, p) == Len(s) >= Len(p) /\ SubSeq(s, 1, Len(p)) = p

\* The filter 'type_name.startswith("AWS::")'.
IsAwsType(t) == StartsWith(t, <<"A", "W", "S", ":", ":">>)

AwsTypeNames == {t \in TypeNames : IsAwsType(t)}

\* str.replace(old, new): leftmost, non-overlapping occurrences.
RECURSIVE Replace(_, _, _)
Replace(s, old, new) ==
    IF Len(s) = 0 THEN <<>>
    ELSE IF StartsWith(s, old)
         THEN new \o Replace(SubSeq(s, Len(old) + 1, Len(s)), old, new)
         ELSE <<Head(s)>> \o Replace(Tail(s), old, new)

\* filename = type_name.replace('::', '--') + '.json'
Filename(t) == Replace(t, <<":", ":">>, <<"-", "-">>) \o <<".", "j", "s", "o", "n">>

Filenames == {Filename(t) : t \in TypeNames}

\* ------------------------------------------------------------------- JSON

\* A parsed schema is a dict: a function from keys to values.
SchemaV1 == ("a" :> 1) @@ ("b" :> 2)
SchemaV2 == ("a" :> 1) @@ ("b" :> 3)

\* Order of the keys under sort_keys=True.
KeyRank == ("a" :> 1) @@ ("b" :> 2)

\* The JSON texts of a dict: its members in any order.
RECURSIVE Texts(_)
Texts(d) ==
    IF DOMAIN d = {} THEN {<<>>}
    ELSE UNION {{<<[k |-> key, v |-> d[key]]>> \o rest :
                    rest \in Texts([x \in DOMAIN d \ {key} |-> d[x]])} :
                key \in DOMAIN d}

\* json.loads / json.load: the dict of a JSON text (the last duplicate wins).
JsonLoad(text) ==
    [key \in {text[i].k : i \in 1..Len(text)} |->
        LET last == CHOOSE i \in 1..Len(text) :
                        /\ text[i].k = key
                        /\ \A j \in 1..Len(text) : text[j].k = key => j <= i
        IN text[last].v]

\* json.dump(obj, f, sort_keys=True): the members in key order.
RECURSIVE JsonDump(_)
JsonDump(d) ==
    IF DOMAIN d = {} THEN <<>>
    ELSE LET first == CHOOSE key \in DOMAIN d :
                          \A other \in DOMAIN d : KeyRank[key] <= KeyRank[other]
         IN <<[k |-> first, v |-> d[first]]>>
                \o JsonDump([x \in DOMAIN d \ {first} |-> d[x]])

\* ------------------------------------------------------------------ files

EmptyMap == [t \in {} |-> 0]

\* A file is absent, holds a complete JSON document, or holds a truncated one.
AbsentFile == [state |-> "absent", data |-> EmptyMap]
CorruptFile == [state |-> "corrupt", data |-> EmptyMap]
ValidFile(d) == [state |-> "valid", data |-> d]

\* 'if file.exists(): json.load(f) else {}' for the two ledger files.
LoadLedger(file) == IF file.state = "valid" THEN file.data ELSE EmptyMap

\* --------------------------------------------------------------- metadata

None == "None"
Missing == "<missing>"

\* describe_type's TimeCreated is a datetime, DeprecatedStatus a string.
DatetimeValues == {"datetime(2020-01-01)"}
HasIsoformat(v) == v \in DatetimeValues
Isoformat(v) == IF v = "datetime(2020-01-01)" THEN "2020-01-01T00:00:00" ELSE v

\* 'v.isoformat() if hasattr(v, "isoformat") else v'
MetaValue(v) == IF HasIsoformat(v) THEN Isoformat(v) ELSE v

\* The TimeCreated and DeprecatedStatus of a describe_type response: both
\* present, or both absent (response.get returns None).
FullMetadata == [TimeCreated |-> "datetime(2020-01-01)", DeprecatedStatus |-> "LIVE"]
NoMetadata == [TimeCreated |-> None, DeprecatedStatus |-> None]

\* ----------------------------------------------------------------- remote

\* What the registry holds for one type: listed or not, its schema, its metadata.
Unlisted == [listed |-> FALSE, schema |-> SchemaV1, meta |-> NoMetadata]
Listed(s, m) == [listed |-> TRUE, schema |-> s, meta |-> m]

\* The entries the registry may hold for a type. AWS::A is republished with a
\* new schema or with its metadata withdrawn; AWS::B is only listed and unlisted.
RemoteEntriesOf(t) ==
    IF t = TypeA
    THEN {Unlisted, Listed(SchemaV1, FullMetadata), Listed(SchemaV2, FullMetadata),
          Listed(SchemaV1, NoMetadata)}
    ELSE {Unlisted, Listed(SchemaV1, NoMetadata)}

\* The listing the paginator walks: third-party types stay listed throughout.
Catalog(rem) == SelectSeq(Registry, LAMBDA t : ~IsAwsType(t) \/ rem[t].listed)

Min(a, b) == IF a <= b THEN a ELSE b

\* The TypeSummaries of page n (the first page is 1).
Page(rem, n) ==
    SubSeq(Catalog(rem), (n - 1) * PageSize + 1, Min(n * PageSize, Len(Catalog(rem))))

\* Whether page n carries a NextToken.
HasNextPage(rem, n) == n * PageSize < Len(Catalog(rem))

\* ------------------------------------------------------------------ state

VARIABLES
    remote,          \* the registry: type name -> entry
    version_file,    \* version_metadata.json
    removed_file,    \* removed_schemas.json
    schema_files,    \* schemas/<filename>: file name -> file
    pc,              \* "idle", "running", "done" (main returned), "failed" (main raised)
    now,             \* current_time of the latest pass
    versions,        \* main's dict 'versions'
    removed_schemas, \* main's dict 'removed_schemas'
    current_types,   \* main's set 'current_types'
    todo,            \* the TypeSummaries of the current page not yet iterated
    pages,           \* number of pages the paginator has yielded
    more,            \* whether the paginator has another page to request
    result,          \* how the latest pass ended
    outcome,         \* per type: what happened to it in the latest pass
    versions0,       \* 'versions' as loaded when the latest pass started
    removed0,        \* 'removed_schemas' as loaded when the latest pass started
    schemas0,        \* schema_files when the latest pass started
    pend,            \* types whose stored schema a failed pass changed without the ledger recording it
    prevClean,       \* the previous pass completed without any failure, on the present registry
    repo_path,       \* SchemaTracker.repo_path: "absolute", "relative", or "none" (no tracker built)
    tpc,             \* where the tracker stands: "idle", "list", "describe", "commit", "report", "done", "failed"
    cwd,             \* the working directory of the process: 0 where it started, k inside the
                     \* k-th nested directory os.chdir(repo_path) has entered
    repos,           \* the repository directories, outermost first: repos[k] is the k-th
                     \* nested one, with its schemas/ files, its git history (commits, oldest
                     \* first, each with its date and tree) and, per file, the number and the
                     \* latest date of the commits made when its stored content was new or changed
    types,           \* fetch_all_schemas: the enumerated type names not yet described
    schemas,         \* fetch_all_schemas: the schema_data fetched so far, in insertion order
    has_changes,     \* what commit_changes returned: "True", "False", or None before it has
    report,          \* what get_schema_versions returned
    repos0,          \* 'repos' when the latest call had gone through init_repo, or started
    stage,           \* the directory commit_changes ran in during the latest call, 0 if none
    seen,            \* the directory whose schemas/ get_schema_versions listed, 0 if none
    ids,             \* id mapping: the type names given
    paths,           \* id mapping: the file names save_schemas derives from them
    stems            \* id mapping: the type names get_schema_versions derives back

\* The state of SchemaTracker and its repository, and of the id mapping.
tracker == <<repo_path, tpc, cwd, repos, types, schemas, has_changes, report, repos0,
             stage, seen>>
mapping == <<ids, paths, stems>>

vars == <<remote, version_file, removed_file, schema_files, pc, now, versions,
          removed_schemas, current_types, todo, pages, more, result, outcome,
          versions0, removed0, schemas0, pend, prevClean, tracker, mapping>>

disk == <<version_file, removed_file, schema_files>>
memory == <<versions, removed_schemas, current_types, todo, pages, more>>
snapshot == <<versions0, removed0, schemas0>>

NoOutcome == [t \in AwsTypeNames |-> "none"]
NoSchemaFiles == [f \in Filenames |-> AbsentFile]

\* Before the first run of fetch_schemas.py: an empty registry, no files.
MainInit ==
    /\ remote = [t \in AwsTypeNames |-> Unlisted]
    /\ version_file = AbsentFile
    /\ removed_file = AbsentFile
    /\ schema_files = NoSchemaFiles
    /\ pc = "idle"
    /\ now = 0
    /\ versions = EmptyMap
    /\ removed_schemas = EmptyMap
    /\ current_types = {}
    /\ todo = <<>>
    /\ pages = 0
    /\ more = FALSE
    /\ result = "none"
    /\ outcome = NoOutcome
    /\ versions0 = EmptyMap
    /\ removed0 = EmptyMap
    /\ schemas0 = NoSchemaFiles
    /\ pend = {}
    /\ prevClean = FALSE

\* A date that is None: every commit is dated 1 or later.
NoDate == 0

\* The process and the tracker's memory before the first run_update: no
\* repository directory exists yet.
TrackerIdle ==
    /\ tpc = "idle"
    /\ cwd = 0
    /\ repos = <<>>
    /\ types = <<>>
    /\ schemas = <<>>
    /\ has_changes = None
    /\ report = None
    /\ repos0 = <<>>
    /\ stage = 0
    /\ seen = 0

\* No SchemaTracker is built and no id is mapped.
NoTracker == repo_path = "none" /\ TrackerIdle
NoMapping == ids = <<>> /\ paths = <<>> /\ stems = <<>>

Init == MainInit /\ NoTracker /\ NoMapping

\* ------------------------------------------------------------ the registry

\* Between passes the registry lists, unlists or republishes one type.
RemoteChange(t, e) ==
    /\ pc = "idle"
    /\ tpc = "idle"
    /\ remote[t] # e
    /\ remote' = [remote EXCEPT ![t] = e]
    /\ pend' = pend \ {t}
    /\ prevClean' = FALSE
    /\ UNCHANGED <<disk, pc, now, memory, result, outcome, snapshot>>
    /\ UNCHANGED <<tracker, mapping>>

\* --------------------------------------------------------------- the pass

\* Lines 12-35: load both ledger files, take current_time, start the paginator.
StartPass ==
    /\ pc = "idle"
    /\ now < MaxPasses
    /\ version_file.state # "corrupt"
    /\ removed_file.state # "corrupt"
    /\ pc' = "running"
    /\ now' = now + 1
    /\ versions' = LoadLedger(version_file)
    /\ removed_schemas' = LoadLedger(removed_file)
    /\ current_types' = {}
    /\ todo' = <<>>
    /\ pages' = 0
    /\ more' = TRUE
    /\ result' = "none"
    /\ outcome' = NoOutcome
    /\ versions0' = LoadLedger(version_file)
    /\ removed0' = LoadLedger(removed_file)
    /\ schemas0' = schema_files
    /\ UNCHANGED <<remote, disk, pend, prevClean>>
    /\ UNCHANGED <<tracker, mapping>>

\* What a raising main leaves behind: nothing of its memory, and the stored
\* schemas it changed for types with a version record now differ from the ledger.
Raise(why) ==
    /\ pc' = "failed"
    /\ result' = why
    /\ pend' = pend \cup {t \in DOMAIN versions0 :
                            /\ outcome[t] = "ok"
                            /\ schemas0[Filename(t)] # schema_files[Filename(t)]}
    /\ UNCHANGED <<remote, now, current_types, todo, pages, more, outcome,
                   snapshot, prevClean>>

\* Lines 14-16, 22-24: json.load raises on a truncated ledger file.
LedgerLoadError ==
    /\ pc = "idle"
    /\ version_file.state = "corrupt" \/ removed_file.state = "corrupt"
    /\ Raise("load_error")
    /\ UNCHANGED <<disk, versions, removed_schemas>>
    /\ UNCHANGED <<tracker, mapping>>

\* Line 37: the paginator requests the next page and the request fails.
ListTypesError ==
    /\ pc = "running"
    /\ todo = <<>>
    /\ more
    /\ Raise("enum_error")
    /\ UNCHANGED <<disk, versions, removed_schemas>>
    /\ UNCHANGED <<tracker, mapping>>

\* Line 37: the paginator yields the next page.
ListTypes ==
    /\ pc = "running"
    /\ todo = <<>>
    /\ more
    /\ todo' = Page(remote, pages + 1)
    /\ pages' = pages + 1
    /\ more' = HasNextPage(remote, pages + 1)
    /\ UNCHANGED <<remote, disk, pc, now, versions, removed_schemas, current_types,
                   result, outcome, snapshot, pend, prevClean>>
    /\ UNCHANGED <<tracker, mapping>>

\* Lines 42-43: a type outside AWS:: is passed over.
SkipType ==
    /\ pc = "running"
    /\ todo # <<>>
    /\ ~IsAwsType(Head(todo))
    /\ todo' = Tail(todo)
    /\ UNCHANGED <<remote, disk, pc, now, versions, removed_schemas, current_types,
                   pages, more, result, outcome, snapshot, pend, prevClean>>
    /\ UNCHANGED <<tracker, mapping>>

\* ------------------------------------------------- one type of the listing

\* Lines 54-57 and 77-78: the metadata keys a response contributes, None dropped.
MetaField(v, old) == IF v # None THEN MetaValue(v) ELSE old

\* Bug variant: the new record's last_updated is left unset.
NewRecord_NoUpdated(time, meta) ==
    [first_seen |-> time,
     last_updated |-> 0,
     time_created |-> MetaField(meta.TimeCreated, Missing),
     deprecation_status |-> MetaField(meta.DeprecatedStatus, Missing)]

\* Lines 73-79: the record of a type seen for the first time.
NewRecord(time, meta) ==
    [first_seen |-> time,
     last_updated |-> time,
     time_created |-> MetaField(meta.TimeCreated, Missing),
     deprecation_status |-> MetaField(meta.DeprecatedStatus, Missing)]

\* Bug variant: a changed schema restarts the record.
Touch_Restart(rec, changed, time) ==
    IF changed THEN [rec EXCEPT !.first_seen = time, !.last_updated = time] ELSE rec

\* Bug variant: last_updated moves on every observation.
Touch_Always(rec, changed, time) == [rec EXCEPT !.last_updated = time]

\* Lines 80-81: last_updated moves only when the schema changed.
Touch(rec, changed, time) ==
    IF changed THEN [rec EXCEPT !.last_updated = time] ELSE rec

\* Bug variant: a key the response does not carry is taken out of the record.
UpdateMetadata_Clear(rec, meta) ==
    [rec EXCEPT !.time_created = MetaField(meta.TimeCreated, Missing),
                !.deprecation_status = MetaField(meta.DeprecatedStatus, Missing)]

\* Lines 83-86: metadata that is not None overwrites what the record holds.
UpdateMetadata(rec, meta) ==
    [rec EXCEPT !.time_created = MetaField(meta.TimeCreated, @),
                !.deprecation_status = MetaField(meta.DeprecatedStatus, @)]

\* Bug variant: a type found in the removed set gets its archived record back.
RecordObservation_Resurrect(vers, t, changed, time, meta) ==
    LET rec == IF t \in DOMAIN vers THEN Touch(vers[t], changed, time)
               ELSE IF t \in DOMAIN removed_schemas
                    THEN [NewRecord(time, meta) EXCEPT
                             !.first_seen = removed_schemas[t].first_seen]
                    ELSE NewRecord(time, meta)
    IN (t :> UpdateMetadata(rec, meta)) @@ vers

\* Lines 72-86: 'versions' after one successful observation of type t.
RecordObservation(vers, t, changed, time, meta) ==
    LET rec == IF t \notin DOMAIN vers
               THEN NewRecord(time, meta)
               ELSE Touch(vers[t], changed, time)
    IN (t :> UpdateMetadata(rec, meta)) @@ vers

\* Bug variant: the stored file is never compared.
SchemaChanged_Always(file, schema) == TRUE

\* Lines 61-66: a schema counts as changed when no file is stored for it or
\* the stored file parses to a different document.
SchemaChanged(file, schema) ==
    IF file.state = "absent" THEN TRUE ELSE JsonLoad(file.data) # schema

\* The head of the page is an AWS type: line 45 adds it to current_types
\* before anything can fail.
Visit(t) ==
    /\ pc = "running"
    /\ todo # <<>>
    /\ t = Head(todo)
    /\ IsAwsType(t)
    /\ todo' = Tail(todo)
    /\ current_types' = current_types \cup {t}
    /\ UNCHANGED <<remote, version_file, removed_file, pc, now, removed_schemas,
                   pages, more, result, snapshot, pend, prevClean>>

\* Bug variant: no try/except around the fetch, the exception ends main.
FetchError_Abort(t) ==
    /\ pc = "running"
    /\ todo # <<>>
    /\ t = Head(todo)
    /\ IsAwsType(t)
    /\ current_types' = current_types \cup {t}
    /\ outcome' = [outcome EXCEPT ![t] = "fetch_error"]
    /\ pc' = "failed"
    /\ result' = "crash"
    /\ UNCHANGED <<remote, disk, now, versions, removed_schemas, todo, pages, more,
                   snapshot, pend, prevClean>>
    /\ UNCHANGED <<tracker, mapping>>

\* Lines 50-51 raise (describe_type or json.loads); lines 92-94 skip the type.
FetchError(t) ==
    /\ Visit(t)
    /\ outcome' = [outcome EXCEPT ![t] = "fetch_error"]
    /\ UNCHANGED <<schema_files, versions>>
    /\ UNCHANGED <<tracker, mapping>>

\* Lines 64-65 raise: the stored schema file is truncated and does not parse.
StoredSchemaError(t) ==
    /\ Visit(t)
    /\ schema_files[Filename(t)].state = "corrupt"
    /\ outcome' = [outcome EXCEPT ![t] = "load_error"]
    /\ UNCHANGED <<schema_files, versions>>
    /\ UNCHANGED <<tracker, mapping>>

\* Lines 69-70 raise: open fails and leaves the file as it was, or the write
\* stops part-way and leaves a truncated file.
StoreError(t, truncated) ==
    /\ Visit(t)
    /\ schema_files[Filename(t)].state # "corrupt"
    /\ schema_files' = IF truncated
                       THEN [schema_files EXCEPT ![Filename(t)] = CorruptFile]
                       ELSE schema_files
    /\ outcome' = [outcome EXCEPT ![t] = "store_error"]
    /\ UNCHANGED versions
    /\ UNCHANGED <<tracker, mapping>>

\* Lines 50-88 run through: the response carries the registry's schema as some
\* JSON text; the file is overwritten and the version record updated.
Observe(t, text) ==
    /\ Visit(t)
    /\ schema_files[Filename(t)].state # "corrupt"
    /\ LET schema == JsonLoad(text)
           changed == SchemaChanged(schema_files[Filename(t)], schema)
       IN /\ schema_files' =
                [schema_files EXCEPT ![Filename(t)] = ValidFile(JsonDump(schema))]
          /\ versions' = RecordObservation(versions, t, changed, now, remote[t].meta)
    /\ outcome' = [outcome EXCEPT ![t] = "ok"]
    /\ UNCHANGED <<tracker, mapping>>

\* ------------------------------------------------ reconciliation and persist

\* Bug variant: a type counts as gone unless it was fetched and stored.
Gone_Unobserved(vers, cur) == {t \in DOMAIN vers : t \notin cur \/ outcome[t] # "ok"}

\* Lines 97-98: the types with a version record that the pass did not list.
Gone(vers, cur) == {t \in DOMAIN vers : t \notin cur}

\* Bug variant: the archive entry is stamped with the record's last_updated.
ArchiveRemoved_StaleDate(vers, rem, cur, time) ==
    [t \in DOMAIN rem \cup {x \in DOMAIN vers : x \notin cur} |->
        IF t \in DOMAIN vers /\ t \notin cur
        THEN [first_seen |-> vers[t].first_seen,
              last_updated |-> vers[t].last_updated,
              time_created |-> vers[t].time_created,
              deprecation_status |-> vers[t].deprecation_status,
              removed_date |-> vers[t].last_updated]
        ELSE rem[t]]

\* Bug variant: the archive entry is stamped with the record's first_seen.
ArchiveRemoved_FirstSeenDate(vers, rem, cur, time) ==
    [t \in DOMAIN rem \cup {x \in DOMAIN vers : x \notin cur} |->
        IF t \in DOMAIN vers /\ t \notin cur
        THEN [first_seen |-> vers[t].first_seen,
              last_updated |-> vers[t].last_updated,
              time_created |-> vers[t].time_created,
              deprecation_status |-> vers[t].deprecation_status,
              removed_date |-> vers[t].first_seen]
        ELSE rem[t]]

\* Lines 99-102: the removed set gains (or overwrites) an entry per gone type.
ArchiveRemoved(vers, rem, cur, time) ==
    [t \in DOMAIN rem \cup Gone(vers, cur) |->
        IF t \in Gone(vers, cur)
        THEN [first_seen |-> vers[t].first_seen,
              last_updated |-> vers[t].last_updated,
              time_created |-> vers[t].time_created,
              deprecation_status |-> vers[t].deprecation_status,
              removed_date |-> time]
        ELSE rem[t]]

\* Bug variant: the gone types keep their version records.
DropRemoved_Keep(vers, cur) == vers

\* Line 103: the gone types leave 'versions'.
DropRemoved(vers, cur) == [t \in DOMAIN vers \ Gone(vers, cur) |-> vers[t]]

\* The loop at line 37 has ended: every page was yielded and iterated.
LoopDone == pc = "running" /\ todo = <<>> /\ ~more

\* Lines 96-104: the removal loop over list(versions.keys()).
ReconcileRemovals ==
    /\ LoopDone
    /\ versions' = DropRemoved(versions, current_types)
    /\ removed_schemas' = ArchiveRemoved(versions, removed_schemas, current_types, now)

\* Lines 96-111 run through: both ledger files are rewritten and main returns.
Persist ==
    /\ ReconcileRemovals
    /\ version_file' = ValidFile(versions')
    /\ removed_file' = ValidFile(removed_schemas')
    /\ pc' = "done"
    /\ result' = "ok"
    /\ UNCHANGED <<remote, schema_files, now, current_types, todo, pages, more,
                   outcome, snapshot, pend, prevClean>>
    /\ UNCHANGED <<tracker, mapping>>

\* Lines 107-108 raise: open fails, or the write stops part-way.
VersionWriteError(truncated) ==
    /\ ReconcileRemovals
    /\ version_file' = IF truncated THEN CorruptFile ELSE version_file
    /\ Raise("persist_error")
    /\ UNCHANGED <<removed_file, schema_files>>
    /\ UNCHANGED <<tracker, mapping>>

\* Lines 110-111 raise after version_metadata.json was rewritten.
RemovedWriteError(truncated) ==
    /\ ReconcileRemovals
    /\ version_file' = ValidFile(versions')
    /\ removed_file' = IF truncated THEN CorruptFile ELSE removed_file
    /\ pc' = "failed"
    /\ result' = "persist_error"
    /\ UNCHANGED <<remote, schema_files, now, current_types, todo, pages, more,
                   outcome, snapshot, pend, prevClean>>
    /\ UNCHANGED <<tracker, mapping>>

\* The process dies inside the loop (a signal, an exception 'except Exception'
\* does not catch): nothing is persisted.
Crash ==
    /\ pc = "running"
    /\ ~LoopDone
    /\ Raise("crash")
    /\ UNCHANGED <<disk, versions, removed_schemas>>
    /\ UNCHANGED <<tracker, mapping>>

\* The process has ended; the next pass starts from the files alone.
Exit ==
    /\ pc \in {"done", "failed"}
    /\ pc' = "idle"
    /\ versions' = EmptyMap
    /\ removed_schemas' = EmptyMap
    /\ current_types' = {}
    /\ todo' = <<>>
    /\ pages' = 0
    /\ more' = FALSE
    /\ result' = "none"
    /\ outcome' = NoOutcome
    /\ versions0' = EmptyMap
    /\ removed0' = EmptyMap
    /\ schemas0' = NoSchemaFiles
    /\ pend' = IF pc = "done" THEN {t \in pend : outcome[t] # "ok"} ELSE pend
    /\ prevClean' = (pc = "done" /\ \A t \in AwsTypeNames : outcome[t] \in {"none", "ok"})
    /\ UNCHANGED <<remote, disk, now>>
    /\ UNCHANGED <<tracker, mapping>>

Next ==
    \/ \E t \in AwsTypeNames : \E e \in RemoteEntriesOf(t) : RemoteChange(t, e)
    \/ StartPass
    \/ LedgerLoadError
    \/ ListTypesError
    \/ ListTypes
    \/ SkipType
    \/ \E t \in AwsTypeNames : FetchError(t)
    \/ \E t \in AwsTypeNames : StoredSchemaError(t)
    \/ \E t \in AwsTypeNames, truncated \in BOOLEAN : StoreError(t, truncated)
    \/ \E t \in AwsTypeNames : \E text \in Texts(remote[t].schema) : Observe(t, text)
    \/ Persist
    \/ \E truncated \in BOOLEAN : VersionWriteError(truncated)
    \/ \E truncated \in BOOLEAN : RemovedWriteError(truncated)
    \/ Crash
    \/ Exit

Spec == Init /\ [][Next]_vars

\* ------------------------------------------------------------- properties

\* The pass that has just ended ran to the end of main.
Completed == pc = "done"

ActiveAfter == version_file.data
RemovedAfter == removed_file.data

\* Type t had a version record when the pass started and the pass archived it.
ArchivedNow(t) ==
    /\ t \in DOMAIN RemovedAfter
    /\ RemovedAfter[t].removed_date = now
    /\ t \notin DOMAIN ActiveAfter

\* C1 as stated: after a completed pass, every type that had a version record
\* when the pass started and was not fetched and stored in it - unlisted, or
\* listed with a failed fetch - is in the removed set, stamped with the pass
\* timestamp, and has no version record.
C1_RemovalOfUnobserved ==
    Completed =>
        \A t \in DOMAIN versions0 : outcome[t] # "ok" => ArchivedNow(t)

\* C1 amended: after a completed pass, every type that had a version record when
\* the pass started and is not listed by the registry in this pass is in the
\* removed set, stamped with the pass timestamp, and has no version record.
C1_RemovalOfUnlisted ==
    Completed =>
        \A t \in DOMAIN versions0 : ~remote[t].listed => ArchivedNow(t)

C1_Witness ==
    /\ Completed
    /\ \E t \in DOMAIN versions0 : ~remote[t].listed /\ ArchivedNow(t)

\* Type t's version record and removed-set entry, as held by (vers, rem), are
\* what they were when the pass started.
Untouched(t, vers, rem) ==
    /\ t \in DOMAIN versions0 =>
          /\ t \in DOMAIN vers
          /\ vers[t].first_seen = versions0[t].first_seen
          /\ vers[t].last_updated = versions0[t].last_updated
    /\ t \in DOMAIN rem <=> t \in DOMAIN removed0
    /\ t \in DOMAIN rem => rem[t] = removed0[t]

\* C2: a listed type whose describe_type or schema parse fails in a pass is not
\* moved to the removed set by that pass, and its version record keeps its
\* first_seen and last_updated - in main's dicts while the pass runs and in the
\* ledger files once it has completed.
C2_NoFalseRemoval ==
    \A t \in AwsTypeNames :
        outcome[t] = "fetch_error" =>
            /\ pc = "running" => Untouched(t, versions, removed_schemas)
            /\ Completed => Untouched(t, ActiveAfter, RemovedAfter)

C2_Witness ==
    /\ Completed
    /\ \E t \in DOMAIN versions0 :
          /\ outcome[t] = "fetch_error"
          /\ remote[t].listed
          /\ t \in DOMAIN ActiveAfter

\* The schema fetched for t differs, as a parsed document, from the file that
\* was stored for t when the pass started.
DiffersFromStored(t) ==
    \/ schemas0[Filename(t)].state # "valid"
    \/ JsonLoad(schemas0[Filename(t)].data) # remote[t].schema

\* C3: after a completed pass, every type that had a version record and was
\* fetched and stored in the pass has last_updated equal to the pass timestamp
\* if its fetched schema differs from the file stored before the pass, and equal
\* to its value before the pass otherwise.
C3_ChangeDetection ==
    Completed =>
        \A t \in DOMAIN versions0 :
            outcome[t] = "ok" =>
                /\ t \in DOMAIN ActiveAfter
                /\ ActiveAfter[t].last_updated =
                      IF DiffersFromStored(t) THEN now ELSE versions0[t].last_updated

C3_Witness ==
    /\ Completed
    /\ \E t \in DOMAIN versions0 :
          outcome[t] = "ok" /\ DiffersFromStored(t) /\ versions0[t].last_updated < now
    /\ \E t \in DOMAIN versions0 :
          outcome[t] = "ok" /\ ~DiffersFromStored(t) /\ versions0[t].last_updated < now

\* C4: when a pass has overwritten the stored schema of a type that has a
\* version record with changed content and then ended before the ledger was
\* persisted, the next completed pass on the same registry that fetches the
\* type records the change: last_updated is later than the persisted value.
C4_NoLostChange ==
    Completed =>
        \A t \in pend :
            outcome[t] = "ok" =>
                /\ t \in DOMAIN versions0
                /\ t \in DOMAIN ActiveAfter
                /\ ActiveAfter[t].last_updated > versions0[t].last_updated

\* The ledger files hold what they held when the pass started.
LedgerAsBefore ==
    /\ version_file.state # "corrupt"
    /\ removed_file.state # "corrupt"
    /\ LoadLedger(version_file) = versions0
    /\ LoadLedger(removed_file) = removed0

\* The ledger files hold what the pass computed.
LedgerAsComputed ==
    /\ version_file = ValidFile(versions)
    /\ removed_file = ValidFile(removed_schemas)

\* A type lost its version record and the removed set does not hold it.
HalfAppliedRemoval ==
    \E t \in DOMAIN versions0 :
        /\ version_file.state = "valid"
        /\ t \notin DOMAIN version_file.data
        /\ t \notin DOMAIN LoadLedger(removed_file)

\* C5: when the final persistence step of a pass fails, the two ledger files
\* together hold either what they held before the pass or what the pass
\* computed, and no type is out of the version records without being in the
\* removed set.
C5_AtomicPersist ==
    (pc = "failed" /\ result = "persist_error") =>
        /\ LedgerAsBefore \/ LedgerAsComputed
        /\ ~HalfAppliedRemoval

\* C6: an entry of the removed set is never modified or deleted by a later
\* completed pass.
C6_RemovedAppendOnly ==
    Completed =>
        \A t \in DOMAIN removed0 :
            t \in DOMAIN RemovedAfter /\ RemovedAfter[t] = removed0[t]

\* Type t has a fresh record: first_seen and last_updated are the pass timestamp.
FreshRecord(t) ==
    /\ t \in DOMAIN ActiveAfter
    /\ ActiveAfter[t].first_seen = now
    /\ ActiveAfter[t].last_updated = now

\* C7: after a completed pass, a type that was in the removed set without a
\* version record and was fetched and stored in the pass has a fresh version
\* record, whatever its old schema file held, and its removed-set entry is as
\* it was before the pass.
C7_Reappearance ==
    Completed =>
        \A t \in DOMAIN removed0 \ DOMAIN versions0 :
            outcome[t] = "ok" =>
                /\ FreshRecord(t)
                /\ t \in DOMAIN RemovedAfter
                /\ RemovedAfter[t] = removed0[t]

C7_Witness ==
    /\ Completed
    /\ \E t \in DOMAIN removed0 \ DOMAIN versions0 :
          /\ outcome[t] = "ok"
          /\ ~DiffersFromStored(t)
          /\ removed0[t].first_seen < now
          /\ FreshRecord(t)

\* C8: after a completed pass, every type that had no version record when the
\* pass started and was fetched and stored in it has a version record with
\* first_seen = last_updated = the pass timestamp.
C8_NewEntity ==
    Completed =>
        \A t \in AwsTypeNames \ DOMAIN versions0 :
            outcome[t] = "ok" => FreshRecord(t)

C8_Witness ==
    /\ Completed
    /\ now > 1
    /\ \E t \in AwsTypeNames \ (DOMAIN versions0 \cup DOMAIN removed0) :
          outcome[t] = "ok" /\ FreshRecord(t)

\* No fetch, stored-file read or store failed in the pass.
NoFailure == \A t \in AwsTypeNames : outcome[t] \in {"none", "ok"}

\* C9: a completed, failure-free pass that follows a completed, failure-free
\* pass on an unchanged registry leaves the version records and the removed set
\* exactly as the first pass left them.
C9_Idempotence ==
    (Completed /\ prevClean /\ NoFailure) =>
        /\ ActiveAfter = versions0
        /\ RemovedAfter = removed0

C9_Witness ==
    /\ Completed /\ prevClean /\ NoFailure
    /\ \A t \in AwsTypeNames : outcome[t] = "ok"
    /\ removed0 # EmptyMap

\* C10: when listing the types fails on any page, the pass has fetched no type,
\* written no schema file, moved no record to the removed set and left the
\* ledger files as they were.
C10_CleanEnumerationFailure ==
    (pc = "failed" /\ result = "enum_error") =>
        /\ \A t \in AwsTypeNames : outcome[t] \in {"none", "fetch_error"}
        /\ schema_files = schemas0
        /\ removed_schemas = removed0
        /\ LedgerAsBefore

\* Type t's version record and stored schema file are exactly what they were
\* when the pass started.
LeftAsBefore(t, vers) ==
    /\ t \in DOMAIN vers <=> t \in DOMAIN versions0
    /\ t \in DOMAIN vers => vers[t] = versions0[t]
    /\ schema_files[Filename(t)] = schemas0[Filename(t)]

\* Type u was fetched, stored and recorded in the pass.
FetchedStoredRecorded(u) ==
    /\ outcome[u] = "ok"
    /\ schema_files[Filename(u)] = ValidFile(JsonDump(remote[u].schema))
    /\ u \in DOMAIN ActiveAfter

\* What a completed pass with a failed fetch of t has done.
SkippedAndContinued(t) ==
    /\ LeftAsBefore(t, ActiveAfter)
    /\ \A u \in AwsTypeNames \ {t} :
          remote[u].listed =>
              /\ outcome[u] # "none"
              /\ outcome[u] = "ok" => FetchedStoredRecorded(u)
    /\ \A u \in DOMAIN versions0 : ~remote[u].listed => ArchivedNow(u)

\* C11: a failed fetch of one type does not end the pass: the step that fails
\* leaves main running with the type's record and file as they were, and a pass
\* that completes has visited every other listed type, fetched, stored and
\* recorded those whose own processing did not fail, archived the unlisted
\* ones and left the failing type's record and file as before the pass.
C11_SkipAndContinue ==
    /\ [](\A t \in AwsTypeNames :
            outcome[t] = "fetch_error" =>
                /\ pc = "running" => LeftAsBefore(t, versions)
                /\ Completed => SkippedAndContinued(t))
    /\ [][\A t \in AwsTypeNames :
            (outcome[t] # "fetch_error" /\ outcome'[t] = "fetch_error") =>
                pc' = "running"]_vars

C11_Witness ==
    /\ Completed
    /\ \E t \in DOMAIN versions0 :
          /\ outcome[t] = "fetch_error"
          /\ \E u \in AwsTypeNames \ {t} : FetchedStoredRecorded(u)

\* C12: first_seen of a version record never changes while the record exists
\* - neither in main's dict while a pass runs nor in the ledger a completed
\* pass has written - and the entry archived for it carries the same first_seen.
C12_FirstSeenImmutable ==
    \A t \in DOMAIN versions0 :
        /\ pc = "running" =>
              /\ t \in DOMAIN versions
              /\ versions[t].first_seen = versions0[t].first_seen
        /\ Completed =>
              IF t \in DOMAIN ActiveAfter
              THEN ActiveAfter[t].first_seen = versions0[t].first_seen
              ELSE /\ t \in DOMAIN RemovedAfter
                   /\ RemovedAfter[t].first_seen = versions0[t].first_seen

C12_Witness ==
    /\ Completed
    /\ \E t \in DOMAIN versions0 :
          /\ t \in DOMAIN ActiveAfter
          /\ ActiveAfter[t].last_updated = now
          /\ ActiveAfter[t].first_seen < now
    /\ \E t \in DOMAIN versions0 :
          /\ t \notin DOMAIN ActiveAfter
          /\ RemovedAfter[t].removed_date = now
          /\ RemovedAfter[t].first_seen < now

\* The value a metadata key of a record holds for a fetched value v: the
\* fetched value as a string, or 'otherwise' when the fetch carried none.
Held(v, otherwise) ==
    IF v = None THEN otherwise
    ELSE IF v = "datetime(2020-01-01)" THEN "2020-01-01T00:00:00" ELSE v

\* The timestamps of t's record are what the schema comparison alone decides.
TimestampsByContent(t) ==
    IF t \in DOMAIN versions0
    THEN /\ ActiveAfter[t].first_seen = versions0[t].first_seen
         /\ ActiveAfter[t].last_updated =
               IF DiffersFromStored(t) THEN now ELSE versions0[t].last_updated
    ELSE FreshRecord(t)

\* C13 as stated: after a completed pass, the record of every type fetched and
\* stored in it holds exactly the metadata of that fetch, keys whose value was
\* absent dropped, and its timestamps are what the schema comparison decides.
C13_MetadataOfLatestFetch ==
    Completed =>
        \A t \in AwsTypeNames :
            outcome[t] = "ok" =>
                /\ t \in DOMAIN ActiveAfter
                /\ ActiveAfter[t].time_created = Held(remote[t].meta.TimeCreated, Missing)
                /\ ActiveAfter[t].deprecation_status =
                      Held(remote[t].meta.DeprecatedStatus, Missing)
                /\ TimestampsByContent(t)

\* What the record of t held for a metadata key before the pass.
TimeCreatedBefore(t) ==
    IF t \in DOMAIN versions0 THEN versions0[t].time_created ELSE Missing
DeprecationStatusBefore(t) ==
    IF t \in DOMAIN versions0 THEN versions0[t].deprecation_status ELSE Missing

\* C13 amended: after a completed pass, in the record of every type fetched and
\* stored in it, whether or not its schema changed, each metadata key the fetch
\* carried holds the fetched value and each key the fetch did not carry holds
\* what the record held before the pass (nothing, for a new record); the
\* timestamps are what the schema comparison decides.
C13_MetadataOverwrittenWhenPresent ==
    Completed =>
        \A t \in AwsTypeNames :
            outcome[t] = "ok" =>
                /\ t \in DOMAIN ActiveAfter
                /\ ActiveAfter[t].time_created =
                      Held(remote[t].meta.TimeCreated, TimeCreatedBefore(t))
                /\ ActiveAfter[t].deprecation_status =
                      Held(remote[t].meta.DeprecatedStatus, DeprecationStatusBefore(t))
                /\ TimestampsByContent(t)

C13_Witness ==
    /\ Completed
    /\ \E t \in DOMAIN versions0 :
          /\ outcome[t] = "ok"
          /\ ~DiffersFromStored(t)
          /\ remote[t].meta.DeprecatedStatus = None
          /\ versions0[t].deprecation_status = "LIVE"
          /\ ActiveAfter[t].deprecation_status = "LIVE"

\* C17: a type whose stored schema file was left truncated is processed again
\* by the next pass in which its fetch succeeds and the store is writable:
\* whenever a step of a pass finds the file truncated, that step rewrites it
\* with the fetched schema unless the fetch or the store fails.
C17_StoreFailureRecoverable ==
    \A t \in AwsTypeNames :
        (Completed /\ schemas0[Filename(t)].state = "corrupt" /\ remote[t].listed) =>
            \/ outcome[t] \in {"fetch_error", "store_error"}
            \/ /\ outcome[t] = "ok"
               /\ schema_files[Filename(t)] = ValidFile(JsonDump(remote[t].schema))
               /\ t \in DOMAIN ActiveAfter

\* The records of a ledger are ordered: first_seen <= last_updated.
ActiveOrdered(vers) ==
    \A t \in DOMAIN vers : vers[t].first_seen <= vers[t].last_updated

\* The entries of a removed set are ordered:
\* first_seen <= last_updated <= removed_date.
RemovedOrdered(rem) ==
    \A t \in DOMAIN rem :
        /\ rem[t].first_seen <= rem[t].last_updated
        /\ rem[t].last_updated <= rem[t].removed_date

\* C18: with pass timestamps that never decrease, every active record, in the
\* ledger file and in the running pass, has first_seen <= last_updated, and
\* every removed entry has first_seen <= last_updated <= removed_date.
C18_TimestampOrdering ==
    /\ ActiveOrdered(versions)
    /\ ActiveOrdered(version_file.data)
    /\ RemovedOrdered(removed_schemas)
    /\ RemovedOrdered(removed_file.data)

\* A completed pass keeps a record that an earlier pass created, and archives
\* a type that was updated after it was first seen and before this pass.
C18_Witness ==
    /\ Completed
    /\ \E t \in DOMAIN ActiveAfter : ActiveAfter[t].first_seen < now
    /\ \E t \in DOMAIN RemovedAfter :
          /\ ArchivedNow(t)
          /\ RemovedAfter[t].first_seen < RemovedAfter[t].last_updated
          /\ RemovedAfter[t].last_updated < RemovedAfter[t].removed_date

\* The stored schema file of type t parses to the schema the registry served.
StoredDocumentIsFetched(t) ==
    /\ schema_files[Filename(t)].state = "valid"
    /\ JsonLoad(schema_files[Filename(t)].data) = remote[t].schema

\* C19: after a completed pass the types with a version record are among the
\* types the pass enumerated, and every type fetched and stored in the pass
\* has a version record and a stored schema file equal to the fetched schema.
C19_ActiveSetBound ==
    Completed =>
        /\ DOMAIN ActiveAfter \subseteq current_types
        /\ current_types \subseteq {t \in AwsTypeNames : remote[t].listed}
        /\ \A t \in AwsTypeNames :
              outcome[t] = "ok" =>
                  /\ t \in DOMAIN ActiveAfter
                  /\ StoredDocumentIsFetched(t)

\* A completed pass fetched and stored a type whose file held another schema,
\* and did not enumerate a type that had a version record.
C19_Witness ==
    /\ Completed
    /\ \E t \in DOMAIN versions0 :
          /\ outcome[t] = "ok"
          /\ schemas0[Filename(t)].state = "valid"
          /\ JsonLoad(schemas0[Filename(t)].data) # remote[t].schema
    /\ \E u \in DOMAIN versions0 : u \notin current_types /\ u \notin DOMAIN ActiveAfter

\* =========================================================================
\* schema_tracker.py: SchemaTracker keeps the schemas in a git repository and
\* derives the version history of each type from the commits.
\* =========================================================================

\* The state fetch_schemas.py owns; SchemaTracker leaves it alone.
script == <<disk, pc, memory, result, outcome, snapshot, pend, prevClean>>

\* repo_path is given absolute, or relative to the working directory (the
\* default "./cfn-schemas").
RepoPaths == {"absolute", "relative"}

\* Line 17: the directory self.repo_path names for a process whose working
\* directory is 'dir'.  A relative path is resolved against the working
\* directory at every use; the absolute one always names the same directory.
Target(dir) == IF repo_path = "absolute" THEN 1 ELSE dir + 1

\* Path.exists: the repository directory of that nesting has been made.
Exists(level) == level <= Len(repos)

\* Number of run_update calls that are started.  With a relative repo_path
\* the first calls of a process only make nested directories, so two more
\* calls are followed.
MaxRuns == IF repo_path = "relative" THEN MaxPasses + 2 ELSE MaxPasses

\* Lines 23-27: the directory init_repo makes: an empty git repository.
EmptyRepo ==
    [worktree |-> NoSchemaFiles,
     log |-> <<>>,
     updates |-> [f \in Filenames |-> 0],
     updated |-> [f \in Filenames |-> NoDate]]

\* A SchemaTracker right after __init__, in a directory without a repository.
TrackerInit ==
    /\ MainInit
    /\ repo_path \in RepoPaths
    /\ TrackerIdle
    /\ NoMapping

\* What describe_type answers for a type; third-party types keep one entry.
Described(rem, t) == IF IsAwsType(t) THEN rem[t] ELSE Listed(SchemaV1, FullMetadata)

\* Lines 151-155 and 21-30: run_update starts; init_repo makes the directory
\* repo_path names, as a git repository, if it is missing, and changes into it.
RunUpdate ==
    /\ tpc = "idle"
    /\ repo_path \in RepoPaths
    /\ now < MaxRuns
    /\ Exists(Target(cwd)) \/ Len(repos) < MaxDepth
    /\ tpc' = "list"
    /\ now' = now + 1
    /\ repos' = IF Exists(Target(cwd)) THEN repos ELSE Append(repos, EmptyRepo)
    /\ cwd' = Target(cwd)
    /\ repos0' = repos'
    /\ has_changes' = None
    /\ report' = None
    /\ UNCHANGED <<repo_path, types, schemas, stage, seen>>
    /\ UNCHANGED <<remote, script, mapping>>

\* Lines 37-41: every page of the listing is read before any type is fetched;
\* no type is filtered out.
ListAllTypes ==
    /\ tpc = "list"
    /\ types' = Catalog(remote)
    /\ schemas' = <<>>
    /\ tpc' = "describe"
    /\ UNCHANGED <<repo_path, cwd, repos, has_changes, report, repos0, stage, seen>>
    /\ UNCHANGED <<remote, now, script, mapping>>

\* What a raising run_update or get_schema_versions leaves of the tracker's
\* memory; the working directory and the repositories are as the raising
\* line left them.
TrackerRaise ==
    /\ tpc' = "failed"
    /\ UNCHANGED <<repo_path, types, schemas, has_changes, report, repos0, stage, seen>>
    /\ UNCHANGED <<remote, now, script, mapping>>

\* Line 40 raises: a page request fails and run_update ends.
ListAllTypesError ==
    /\ tpc = "list"
    /\ TrackerRaise
    /\ UNCHANGED <<cwd, repos>>

\* Lines 57-61: the schema_data of one response.
SchemaData(t, entry, text) ==
    [TypeName |-> t,
     TimeCreated |-> Isoformat(entry.meta.TimeCreated),
     Schema |-> JsonLoad(text)]

\* Lines 47-48: the loop of fetch_all_schemas takes the next type.
NextType(t) ==
    /\ tpc = "describe"
    /\ types # <<>>
    /\ t = Head(types)
    /\ types' = Tail(types)
    /\ UNCHANGED <<repo_path, tpc, cwd, repos, has_changes, report, repos0, stage, seen>>
    /\ UNCHANGED <<remote, now, script, mapping>>

\* Lines 52-63 run through: the response carries TimeCreated and the schema
\* as some JSON text.
DescribeType(t, text) ==
    /\ NextType(t)
    /\ HasIsoformat(Described(remote, t).meta.TimeCreated)
    /\ schemas' = Append(schemas, SchemaData(t, Described(remote, t), text))

\* Lines 52-60 raise (describe_type fails, or the response has no TimeCreated);
\* lines 65-67 skip the type.
DescribeTypeError(t) ==
    /\ NextType(t)
    /\ schemas' = schemas

\* The characters of the strings a schema_data holds besides the type name.
Chars(str) ==
    CASE str = "a" -> <<"a">>
      [] str = "b" -> <<"b">>
      [] str = "2020-01-01T00:00:00" ->
            <<"2", "0", "2", "0", "-", "0", "1", "-", "0", "1", "T",
              "0", "0", ":", "0", "0", ":", "0", "0">>

Digits == <<"0", "1", "2", "3", "4", "5", "6", "7", "8", "9">>

\* The JSON text of a non-negative int.
RECURSIVE IntText(_)
IntText(n) ==
    IF n < 10 THEN <<Digits[n + 1]>>
    ELSE IntText(n \div 10) \o <<Digits[(n % 10) + 1]>>

\* The JSON text of a string that needs no escape.
StringText(chars) == <<"\"">> \o chars \o <<"\"">>

\* indent=2: the spaces that open a line at a nesting level.
Indent(level) == [i \in 1..(2 * level) |-> " "]

\* The texts of a sequence, each on its own indented line, separated by ','.
RECURSIVE Lines(_, _)
Lines(members, level) ==
    IF Len(members) = 1 THEN Indent(level) \o members[1]
    ELSE Indent(level) \o Head(members) \o <<",", "\n">> \o Lines(Tail(members), level)

\* The JSON text of a dict whose members are rendered already.
DictText(members, level) ==
    IF members = <<>> THEN <<"{", "}">>
    ELSE <<"{", "\n">> \o Lines(members, level + 1) \o <<"\n">> \o Indent(level) \o <<"}">>

\* One member of a dict: "key": value
MemberText(key, value) == StringText(key) \o <<":", " ">> \o value

\* The JSON text of a schema, nested at a level, keys sorted.
SchemaText(schema, level) ==
    LET dump == JsonDump(schema)
    IN DictText([i \in 1..Len(dump) |->
                    MemberText(Chars(dump[i].k), IntText(dump[i].v))], level)

\* Line 82: the text json.dump(schema_data, f, indent=2, sort_keys=True)
\* writes; the keys sort as Schema, TimeCreated, TypeName.
SchemaDataText(d) ==
    DictText(<<MemberText(<<"S", "c", "h", "e", "m", "a">>, SchemaText(d.Schema, 1)),
               MemberText(<<"T", "i", "m", "e", "C", "r", "e", "a", "t", "e", "d">>,
                          StringText(Chars(d.TimeCreated))),
               MemberText(<<"T", "y", "p", "e", "N", "a", "m", "e">>,
                          StringText(d.TypeName))>>, 0)

\* Lines 81-82: the file a complete write leaves.
SchemaDataDump(d) == ValidFile(SchemaDataText(d))

\* The file a write leaves that stopped after the first 'cut' bytes.
TruncatedFile(text, cut) == [state |-> "corrupt", data |-> SubSeq(text, 1, cut)]

\* Lines 76-82: the files after the first n entries of 'schemas' were written.
Saved(files, dict, n) ==
    [f \in Filenames |->
        LET writes == {i \in 1..n : Filename(dict[i].TypeName) = f}
        IN IF writes = {} THEN files[f]
           ELSE SchemaDataDump(dict[CHOOSE i \in writes : \A j \in writes : j <= i])]

\* The loop of fetch_all_schemas has ended and save_schemas is entered.
FetchDone == tpc = "describe" /\ types = <<>>

\* Lines 71-82 run through: schemas/ is made in the directory repo_path names
\* from the working directory init_repo left, and one file per fetched type is
\* written there.
SaveSchemas ==
    /\ FetchDone
    /\ Exists(Target(cwd))
    /\ repos' = [repos EXCEPT ![Target(cwd)].worktree = Saved(@, schemas, Len(schemas))]
    /\ tpc' = "commit"
    /\ UNCHANGED <<repo_path, cwd, types, schemas, has_changes, report, repos0, stage, seen>>
    /\ UNCHANGED <<remote, now, script, mapping>>

\* Line 81 raises at the n-th file: open fails and leaves the file as it
\* was; run_update ends.
SaveSchemasOpenError(n) ==
    /\ FetchDone
    /\ Exists(Target(cwd))
    /\ n \in 1..Len(schemas)
    /\ repos' = [repos EXCEPT ![Target(cwd)].worktree = Saved(@, schemas, n - 1)]
    /\ TrackerRaise
    /\ UNCHANGED cwd

\* Line 82 raises at the n-th file: the write stops after 'cut' bytes and
\* leaves the file truncated; run_update ends.
SaveSchemasWriteError(n, cut) ==
    /\ FetchDone
    /\ Exists(Target(cwd))
    /\ n \in 1..Len(schemas)
    /\ cut < Len(SchemaDataText(schemas[n]))
    /\ repos' = [repos EXCEPT ![Target(cwd)].worktree =
                     [Saved(@, schemas, n - 1) EXCEPT
                         ![Filename(schemas[n].TypeName)] =
                             TruncatedFile(SchemaDataText(schemas[n]), cut)]]
    /\ TrackerRaise
    /\ UNCHANGED cwd

\* Line 74 raises: the directory repo_path names from the working directory
\* init_repo left does not exist, and mkdir makes no parent.
SchemasDirError ==
    /\ FetchDone
    /\ ~Exists(Target(cwd))
    /\ TrackerRaise
    /\ UNCHANGED <<cwd, repos>>

\* What 'git add .' stages of a nested repository: its HEAD commit, 0 when
\* the directory holds no nested repository.
Gitlink(level) == IF Exists(level + 1) THEN Len(repos[level + 1].log) ELSE 0

\* Line 89: 'git add .' fails on a nested repository that has no commit.
Unborn(level) == Exists(level) /\ repos[level].log = <<>>

\* The tree of the latest commit.
HeadTree(l) ==
    IF l = <<>> THEN [files |-> NoSchemaFiles, link |-> 0] ELSE l[Len(l)].tree

\* Lines 89-94: 'git add .' then 'git diff --cached --quiet' returns non-zero.
HasStagedChanges(index, head) == index # head

\* Lines 84-104: commit_changes changes into the directory repo_path names,
\* stages its files and the HEAD of a repository nested in it, and commits if
\* anything is staged.
CommitChanges ==
    /\ tpc = "commit"
    /\ LET level == Target(cwd)
           files == repos[level].worktree
           index == [files |-> files, link |-> Gitlink(level)]
           head == HeadTree(repos[level].log)
           commit == HasStagedChanges(index, head)
       IN /\ ~Unborn(level + 1)
          /\ repos' = [repos EXCEPT ![level] =
                [worktree |-> files,
                 log |-> IF commit THEN Append(@.log, [date |-> now, tree |-> index])
                         ELSE @.log,
                 updates |-> [f \in Filenames |->
                                 IF commit /\ files[f] # head.files[f]
                                 THEN @.updates[f] + 1 ELSE @.updates[f]],
                 updated |-> [f \in Filenames |->
                                 IF commit /\ files[f] # head.files[f]
                                 THEN now ELSE @.updated[f]]]]
          /\ has_changes' = IF commit THEN "True" ELSE "False"
          /\ cwd' = level
          /\ stage' = level
    /\ tpc' = "report"
    /\ UNCHANGED <<repo_path, types, schemas, report, repos0, seen>>
    /\ UNCHANGED <<remote, now, script, mapping>>

\* Line 89 raises: the directory holds a nested repository without a commit,
\* 'git add .' fails and stages nothing; run_update ends.
GitAddError ==
    /\ tpc = "commit"
    /\ Unborn(Target(cwd) + 1)
    /\ cwd' = Target(cwd)
    /\ TrackerRaise
    /\ UNCHANGED repos

\* pathlib's stem: the file name without its last suffix.
Stem(f) ==
    LET dots == {i \in 2..Len(f) : f[i] = "."}
    IN IF dots = {} THEN f
       ELSE SubSeq(f, 1, (CHOOSE i \in dots : \A j \in dots : j <= i) - 1)

\* Line 118: type_name = schema_file.stem.replace('--', '::')
StemTypeName(f) == Replace(Stem(f), <<"-", "-">>, <<":", ":">>)

\* Lines 122-134: 'git log -- file' over the first n commits, newest first:
\* the commits whose tree differs from their parent's at that file.
RECURSIVE GitLog(_, _, _)
GitLog(l, f, n) ==
    IF n = 0 THEN <<>>
    ELSE LET parent == IF n = 1 THEN AbsentFile ELSE l[n - 1].tree.files[f]
             entry == [commit |-> n, date |-> l[n].date, timestamp |-> l[n].date]
         IN (IF l[n].tree.files[f] # parent THEN <<entry>> ELSE <<>>) \o GitLog(l, f, n - 1)

\* Lines 122-134: the commits 'git log' prints for a path.  A path inside a
\* nested repository is in no tree of the outer one: nothing is printed.
PathLog(l, f, own) == IF own THEN GitLog(l, f, Len(l)) ELSE <<>>

\* Line 139: the number of commits kept in 'history'.
HistoryLen == 5

\* Lines 142-147: the entry of a file whose 'git log' fails.
NoHistory == [latest_update |-> NoDate, total_updates |-> 0, history |-> <<>>]

\* Line 137: commits[0]['date'] if commits else None
LatestUpdate(commits) == IF commits # <<>> THEN commits[1].date ELSE NoDate

\* Lines 121-147: the entry of one file, from history l of the repository
\* 'git log' runs in; 'git log' fails in a repository without commits.
FileVersions(l, f, own) ==
    IF l = <<>> THEN NoHistory
    ELSE LET commits == PathLog(l, f, own)
         IN [latest_update |-> LatestUpdate(commits),
             total_updates |-> Len(commits),
             history |-> SubSeq(commits, 1, Min(HistoryLen, Len(commits)))]

\* Lines 117-149: one entry per file of schemas/, keyed by the derived name.
SchemaVersions(files, l, own) ==
    LET found == {f \in Filenames : files[f].state # "absent"}
    IN [t \in {StemTypeName(f) : f \in found} |->
           FileVersions(l, CHOOSE f \in found : StemTypeName(f) = t, own)]

\* get_schema_versions is called on its own, outside run_update.
CallGetSchemaVersions ==
    /\ tpc = "idle"
    /\ repo_path \in RepoPaths
    /\ tpc' = "report"
    /\ repos0' = repos
    /\ UNCHANGED <<repo_path, cwd, repos, types, schemas, has_changes, report, stage, seen>>
    /\ UNCHANGED <<remote, now, script, mapping>>

\* Line 108 raises, in a call of its own or at the end of run_update: the
\* directory repo_path names from the working directory does not exist.
GetSchemaVersionsError ==
    /\ tpc = "report"
    /\ ~Exists(Target(cwd))
    /\ TrackerRaise
    /\ UNCHANGED <<cwd, repos>>

\* Lines 106-149 run through, on their own or as the end of run_update:
\* line 108 changes into the directory repo_path names, and the files are
\* looked for in the schemas/ of the directory repo_path names from there;
\* lines 114-115 return the empty dict when there is none.
GetSchemaVersions ==
    /\ tpc = "report"
    /\ Exists(Target(cwd))
    /\ LET dir == Target(cwd)
           listed == Target(dir)
       IN /\ cwd' = dir
          /\ seen' = IF Exists(listed) THEN listed ELSE 0
          /\ report' = IF Exists(listed)
                       THEN SchemaVersions(repos[listed].worktree, repos[dir].log,
                                           listed = dir)
                       ELSE EmptyMap
    /\ tpc' = "done"
    /\ UNCHANGED <<repo_path, repos, types, schemas, has_changes, repos0, stage>>
    /\ UNCHANGED <<remote, now, script, mapping>>

\* The call has ended; the next call of the process starts in the working
\* directory this one left.
TrackerExit ==
    /\ tpc \in {"done", "failed"}
    /\ tpc' = "idle"
    /\ types' = <<>>
    /\ schemas' = <<>>
    /\ has_changes' = None
    /\ report' = None
    /\ repos0' = <<>>
    /\ stage' = 0
    /\ seen' = 0
    /\ UNCHANGED <<repo_path, cwd, repos>>
    /\ UNCHANGED <<remote, now, script, mapping>>

\* The process ends and another one is started where the first was: its
\* working directory is the starting one again, the directories stay.
NewProcess ==
    /\ tpc = "idle"
    /\ repo_path \in RepoPaths
    /\ cwd # 0
    /\ cwd' = 0
    /\ UNCHANGED <<repo_path, tpc, repos, types, schemas, has_changes, report, repos0,
                   stage, seen>>
    /\ UNCHANGED <<remote, now, script, mapping>>

TrackerNext ==
    \/ \E t \in AwsTypeNames : \E e \in RemoteEntriesOf(t) : RemoteChange(t, e)
    \/ RunUpdate
    \/ ListAllTypes
    \/ ListAllTypesError
    \/ \E t \in TypeNames : \E text \in Texts(Described(remote, t).schema) :
          DescribeType(t, text)
    \/ \E t \in TypeNames : DescribeTypeError(t)
    \/ SaveSchemas
    \/ \E n \in 1..Cardinality(TypeNames) : SaveSchemasOpenError(n)
    \/ \E n \in 1..Cardinality(TypeNames), cut \in 0..MaxCut :
          SaveSchemasWriteError(n, cut)
    \/ SchemasDirError
    \/ CommitChanges
    \/ GitAddError
    \/ CallGetSchemaVersions
    \/ GetSchemaVersionsError
    \/ GetSchemaVersions
    \/ TrackerExit
    \/ NewProcess

TrackerSpec == TrackerInit /\ [][TrackerNext]_vars

\* ------------------------------------------------- properties of the tracker

\* run_update has gone through commit_changes.
Committed == tpc \in {"report", "done"} /\ has_changes # None

\* Some stored file was added or differs from what the latest commit holds.
StoredDiffers(files, l) == \E f \in Filenames : files[f] # HeadTree(l).files[f]

\* History l is kept, entry for entry, at the start of history m.
Extends(m, l) == Len(l) <= Len(m) /\ SubSeq(m, 1, Len(l)) = l

\* C14: once run_update has gone through commit_changes, the history of the
\* repository it ran in has gained exactly one commit, holding the stored
\* files, and commit_changes returned True if some stored file was added or
\* differs from its last committed content; otherwise the history is as it
\* was and commit_changes returned False; and no step ever changes or removes
\* an earlier commit of any repository.  Fails for a relative repo_path: a
\* pass that changes no stored file is committed when the HEAD of the
\* repository nested in the directory has moved.
C14_CommitGating ==
    /\ [](Committed =>
            LET files == repos[stage].worktree
                before == repos0[stage].log
                after == repos[stage].log
            IN IF StoredDiffers(files, before)
               THEN /\ has_changes = "True"
                    /\ Len(after) = Len(before) + 1
                    /\ after[Len(after)].date = now
                    /\ after[Len(after)].tree.files = files
               ELSE /\ has_changes = "False"
                    /\ after = before)
    /\ [][\A level \in 1..Len(repos) :
              /\ level <= Len(repos')
              /\ Extends(repos'[level].log, repos[level].log)]_vars

\* get_schema_versions has returned.
Reported == tpc = "done"

\* The types that have a stored file among 'files'.
StoredTypes(files) == {t \in TypeNames : files[Filename(t)].state # "absent"}

\* C15: what get_schema_versions returns has one entry per type with a file
\* in the schemas/ it listed; total_updates is the number of passes that
\* committed the file new or changed, latest_update the date of the latest of
\* them; a file no commit holds gets no latest_update, total_updates 0 and an
\* empty history.  Fails for a relative repo_path: the files listed are those
\* of the nested repository and 'git log' of the outer one knows none of them.
C15_HistoryDerivation ==
    Reported =>
        LET stored == IF seen = 0 THEN EmptyRepo ELSE repos[seen]
        IN /\ DOMAIN report = StoredTypes(stored.worktree)
           /\ \A t \in StoredTypes(stored.worktree) :
                 /\ report[t].total_updates = stored.updates[Filename(t)]
                 /\ report[t].latest_update = stored.updated[Filename(t)]
                 /\ Len(report[t].history) = stored.updates[Filename(t)]
                 /\ stored.updates[Filename(t)] = 0 => report[t] = NoHistory

\* =========================================================================
\* The mapping between type names and file names, on arbitrary names.
\* =========================================================================

\* The characters of the names given: a letter and the two separators.
IdChars == {"A", ":", "-"}

\* Every non-empty name of at most MaxIdLen characters.
Ids == UNION {[1..n -> IdChars] : n \in 1..MaxIdLen}

\* Two type names are given.
MappingInit ==
    /\ MainInit
    /\ NoTracker
    /\ ids \in Ids \X Ids
    /\ paths = <<>>
    /\ stems = <<>>

\* fetch_schemas.py line 47 and schema_tracker.py line 78: the file names.
DeriveFilenames ==
    /\ paths = <<>>
    /\ paths' = <<Filename(ids[1]), Filename(ids[2])>>
    /\ UNCHANGED <<ids, stems>>
    /\ UNCHANGED <<remote, now, script, tracker>>

\* schema_tracker.py lines 117-118: the type names read back from the files.
DeriveTypeNames ==
    /\ paths # <<>>
    /\ stems = <<>>
    /\ stems' = <<StemTypeName(paths[1]), StemTypeName(paths[2])>>
    /\ UNCHANGED <<ids, paths>>
    /\ UNCHANGED <<remote, now, script, tracker>>

MappingNext == DeriveFilenames \/ DeriveTypeNames

MappingSpec == MappingInit /\ [][MappingNext]_vars

\* C16: distinct type names get distinct file names, and the name read back
\* from a file name is the name the file name was derived from, for every
\* name, names that contain '--' included.
C16_MappingReversible ==
    /\ paths # <<>> => (ids[1] # ids[2] => paths[1] # paths[2])
    /\ stems # <<>> => stems = ids

====
